---------------------------- MODULE Spec2Model ----------------------------
(***************************************************************************)
(* Model of the construction cost calculator: the usage limiter of the     *)
(* two server entry points (home.js with a query/body e-mail, the session  *)
(* based server), the concrete route, the shared material records and the  *)
(* mix calculator (Mixes.getQuantity / Concrete.getCost).                  *)
(*                                                                         *)
(* JavaScript numbers are IEEE-754 binary64 values.  The mix calculator    *)
(* multiplies and divides them and takes Math.ceil of the result, so the   *)
(* model carries binary64 arithmetic with round-to-nearest-even.  A 53-bit *)
(* significand does not fit TLC's integers: significands are naturals held *)
(* as little-endian sequences of 13-bit limbs.                             *)
(***************************************************************************)
EXTENDS Integers, Sequences, FiniteSets, TLC

(***************************************************************************)
(* Naturals of arbitrary size: little-endian limb sequences, no high zero  *)
(* limb, zero is << >>.                                                    *)
(***************************************************************************)
Radix == 2 ^ 13

Max2(a, b) == IF a >= b THEN a ELSE b

Limb(a, i) == IF i >= 1 /\ i <= Len(a) THEN a[i] ELSE 0

RECURSIVE BTrim(_)
BTrim(a) ==
    IF a = << >> THEN a
    ELSE IF a[Len(a)] = 0 THEN BTrim(SubSeq(a, 1, Len(a) - 1)) ELSE a

RECURSIVE BFromInt(_)
BFromInt(n) == IF n = 0 THEN << >> ELSE <<n % Radix>> \o BFromInt(n \div Radix)

RECURSIVE BToInt(_)
BToInt(a) == IF a = << >> THEN 0 ELSE a[1] + Radix * BToInt(Tail(a))

RECURSIVE BAddFrom(_, _, _, _)
BAddFrom(a, b, i, c) ==
    IF i > Max2(Len(a), Len(b))
    THEN IF c = 0 THEN << >> ELSE <<c>>
    ELSE LET t == Limb(a, i) + Limb(b, i) + c
         IN  <<t % Radix>> \o BAddFrom(a, b, i + 1, t \div Radix)

BAdd(a, b) == BAddFrom(a, b, 1, 0)

RECURSIVE BSubFrom(_, _, _, _)
BSubFrom(a, b, i, c) ==
    IF i > Len(a) THEN << >>
    ELSE LET t == Limb(a, i) - Limb(b, i) - c
         IN  IF t < 0 THEN <<t + Radix>> \o BSubFrom(a, b, i + 1, 1)
                      ELSE <<t>> \o BSubFrom(a, b, i + 1, 0)

\* a - b for a >= b
BSub(a, b) == BTrim(BSubFrom(a, b, 1, 0))

RECURSIVE BCmpFrom(_, _, _)
BCmpFrom(a, b, i) ==
    IF i = 0 THEN 0
    ELSE IF a[i] > b[i] THEN 1
    ELSE IF a[i] < b[i] THEN -1
    ELSE BCmpFrom(a, b, i - 1)

\* -1, 0, 1 as a < b, a = b, a > b
BCmp(a, b) ==
    IF Len(a) > Len(b) THEN 1
    ELSE IF Len(a) < Len(b) THEN -1
    ELSE BCmpFrom(a, b, Len(a))

RECURSIVE ColSum(_, _, _, _)
ColSum(a, b, k, i) ==
    IF i > Len(a) THEN 0
    ELSE a[i] * Limb(b, k + 1 - i) + ColSum(a, b, k, i + 1)

RECURSIVE BMulFrom(_, _, _, _)
BMulFrom(a, b, k, c) ==
    IF k > Len(a) + Len(b) THEN << >>
    ELSE LET t == ColSum(a, b, k, 1) + c
         IN  <<t % Radix>> \o BMulFrom(a, b, k + 1, t \div Radix)

BMul(a, b) == BTrim(BMulFrom(a, b, 1, 0))

RECURSIVE BitLenInt(_)
BitLenInt(n) == IF n = 0 THEN 0 ELSE 1 + BitLenInt(n \div 2)

\* bits per limb
LimbBits == BitLenInt(Radix - 1)

BBitLen(a) == IF a = << >> THEN 0 ELSE (Len(a) - 1) * LimbBits + BitLenInt(a[Len(a)])

Zeros(w) == [i \in 1..w |-> 0]

RECURSIVE BShlBits(_, _, _, _)
BShlBits(a, b, i, c) ==
    IF i > Len(a) THEN IF c = 0 THEN << >> ELSE <<c>>
    ELSE LET t == a[i] * (2 ^ b) + c
         IN  <<t % Radix>> \o BShlBits(a, b, i + 1, t \div Radix)

\* a * 2^n
BShl(a, n) ==
    IF a = << >> THEN a
    ELSE Zeros(n \div LimbBits) \o BShlBits(a, n % LimbBits, 1, 0)

Min2(a, b) == IF a <= b THEN a ELSE b

\* the limbs of a from limb w + 1 on, shifted down by b < LimbBits bits
ShrLimbs(a, w, b) ==
    [i \in 1..(Len(a) - w) |->
       (a[i + w] \div (2 ^ b)) + (Limb(a, i + w + 1) % (2 ^ b)) * (2 ^ (LimbBits - b))]

\* floor(a / 2^n)
BShr(a, n) == BTrim(ShrLimbs(a, n \div LimbBits, n % LimbBits))

\* a mod 2^n
BLow(a, n) ==
    BTrim([i \in 1..Min2(Len(a), n \div LimbBits + 1) |->
             IF i <= n \div LimbBits THEN a[i] ELSE a[i] % (2 ^ (n % LimbBits))])

BOdd(a) == a # << >> /\ a[1] % 2 = 1

BOne == <<1>>

(***************************************************************************)
(* JavaScript numbers.  A finite number is sign * m * 2^e with m = 0 or    *)
(* 2^52 <= m < 2^53 (the exponent range is not modelled: no input of the   *)
(* model comes near overflow or the subnormals).                           *)
(***************************************************************************)
NaN == [k |-> "NaN", s |-> 1, m |-> << >>, e |-> 0]

Inf(sg) == [k |-> "Infinity", s |-> sg, m |-> << >>, e |-> 0]

Fin(sg, mm, ee) == [k |-> "finite", s |-> sg, m |-> mm, e |-> ee]

Zero(sg) == Fin(sg, << >>, 0)

IsZero(x) == x.k = "finite" /\ x.m = << >>

\* sg * q * 2^ee for q of 53 or 54 bits (54 when rounding up carried)
Renorm(sg, q, ee) ==
    IF BBitLen(q) > 53 THEN Fin(sg, BShr(q, 1), ee + 1) ELSE Fin(sg, q, ee)

\* ties-to-even: q goes up when the shed tail is above half a unit (c = 1),
\* or is half a unit (c = 0) and more follows (sticky) or q is odd
RoundTail(sg, q, ee, c, sticky) ==
    Renorm(sg, IF c = 1 \/ (c = 0 /\ (sticky \/ BOdd(q))) THEN BAdd(q, BOne) ELSE q, ee)

\* mm of len bits
RoundBits(sg, mm, ee, sticky, len) ==
    IF len <= 53 THEN Fin(sg, BShl(mm, 53 - len), ee - (53 - len))
    ELSE RoundTail(sg, BShr(mm, len - 53), ee + (len - 53),
                   BCmp(BLow(mm, len - 53), BShl(BOne, len - 54)), sticky)

\* round-to-nearest, ties-to-even, of sg * mm * 2^ee (plus a nonzero tail
\* below the last bit of mm when sticky) to a 53-bit significand
RoundNum(sg, mm, ee, sticky) ==
    IF mm = << >> THEN Zero(sg) ELSE RoundBits(sg, mm, ee, sticky, BBitLen(mm))

\* the number of an integer literal
FromInt(n) ==
    RoundNum(IF n < 0 THEN -1 ELSE 1, BFromInt(IF n < 0 THEN -n ELSE n), 0, FALSE)

\* x * y
NumMul(x, y) ==
    IF x.k = "NaN" \/ y.k = "NaN" THEN NaN
    ELSE IF x.k = "Infinity" \/ y.k = "Infinity"
         THEN IF IsZero(x) \/ IsZero(y) THEN NaN ELSE Inf(x.s * y.s)
    ELSE RoundNum(x.s * y.s, BMul(x.m, y.m), x.e + y.e, FALSE)

\* the largest t in lo..hi with t * d <= r
RECURSIVE QDigit(_, _, _, _)
QDigit(r, d, lo, hi) ==
    IF lo = hi THEN lo
    ELSE IF BCmp(BMul(d, BFromInt((lo + hi + 1) \div 2)), r) <= 0
         THEN QDigit(r, d, (lo + hi + 1) \div 2, hi)
         ELSE QDigit(r, d, lo, (lo + hi + 1) \div 2 - 1)

\* long division of a by d # 0, limb i downwards: <<quotient, remainder>>
RECURSIVE BDivFrom(_, _, _, _, _)

\* quotient limb t found for the running remainder cur
BDivDigit(a, d, i, q, cur, t) ==
    BDivFrom(a, d, i - 1, BSub(cur, BMul(d, BFromInt(t))), <<t>> \o q)

BDivStep(a, d, i, q, cur) == BDivDigit(a, d, i, q, cur, QDigit(cur, d, 0, Radix - 1))

BDivFrom(a, d, i, rem, q) ==
    IF i = 0 THEN <<BTrim(q), rem>> ELSE BDivStep(a, d, i, q, BTrim(<<a[i]>> \o rem))

BDivMod(a, d) == BDivFrom(a, d, Len(a), << >>, << >>)

\* sg * (quotient qr[1], with remainder qr[2]) * 2^ee
QuotientNum(sg, qr, ee) == RoundNum(sg, qr[1], ee, qr[2] # << >>)

\* x / y
NumDiv(x, y) ==
    IF x.k = "NaN" \/ y.k = "NaN" THEN NaN
    ELSE IF x.k = "Infinity"
         THEN IF y.k = "Infinity" THEN NaN ELSE Inf(x.s * y.s)
    ELSE IF y.k = "Infinity" THEN Zero(x.s * y.s)
    ELSE IF IsZero(y) THEN IF IsZero(x) THEN NaN ELSE Inf(x.s * y.s)
    ELSE IF IsZero(x) THEN Zero(x.s * y.s)
    ELSE QuotientNum(x.s * y.s, BDivMod(BShl(x.m, 55), y.m), x.e - y.e - 55)

\* x + y for finite nonzero x, y with significands ax, ay at exponent ee
AddAligned(x, y, ee, ax, ay) ==
    IF x.s # y.s /\ BCmp(ax, ay) = 0 THEN Zero(1)
    ELSE RoundNum(IF x.s = y.s \/ BCmp(ax, ay) = 1 THEN x.s ELSE y.s,
                  IF x.s = y.s THEN BAdd(ax, ay)
                  ELSE IF BCmp(ax, ay) = 1 THEN BSub(ax, ay) ELSE BSub(ay, ax),
                  ee, FALSE)

AddAt(x, y, ee) == AddAligned(x, y, ee, BShl(x.m, x.e - ee), BShl(y.m, y.e - ee))

\* x + y
NumAdd(x, y) ==
    IF x.k = "NaN" \/ y.k = "NaN" THEN NaN
    ELSE IF x.k = "Infinity"
         THEN IF y.k = "Infinity" /\ y.s # x.s THEN NaN ELSE x
    ELSE IF y.k = "Infinity" THEN y
    ELSE IF IsZero(y) THEN (IF IsZero(x) /\ x.s # y.s THEN Zero(1) ELSE x)
    ELSE IF IsZero(x) THEN y
    ELSE IF x.e - y.e > 60 THEN x
    ELSE IF y.e - x.e > 60 THEN y
    ELSE AddAt(x, y, Min2(x.e, y.e))

\* Math.ceil(x)
MathCeil(x) ==
    IF x.k # "finite" \/ IsZero(x) \/ x.e >= 0 THEN x
    ELSE RoundNum(x.s,
                  IF x.s = 1 /\ BLow(x.m, -x.e) # << >>
                  THEN BAdd(BShr(x.m, -x.e), BOne) ELSE BShr(x.m, -x.e),
                  0, FALSE)

(***************************************************************************)
(* A number whose value is an integer, as the records of the model hold  *)
(* it: [k |-> "int", v |-> n], or NaN, or [k |-> "Infinity", v |-> sign].  *)
(***************************************************************************)
IntVal(n) == [k |-> "int", v |-> n]

NaNVal == [k |-> "NaN", v |-> 0]

InfVal(sg) == [k |-> "Infinity", v |-> sg]

\* the integer-valued number x (a result of Math.ceil) as such a record
IntegerOf(x) ==
    IF x.k = "NaN" THEN NaNVal
    ELSE IF x.k = "Infinity" THEN InfVal(x.s)
    ELSE IntVal(x.s * BToInt(IF x.e >= 0 THEN BShl(x.m, x.e) ELSE BShr(x.m, -x.e)))

(***************************************************************************)
(* Strings that the code takes apart are sequences of one-character        *)
(* strings; Str joins one into a string.                                   *)
(***************************************************************************)
RECURSIVE Str(_)
Str(cs) == IF cs = << >> THEN "" ELSE Head(cs) \o Str(Tail(cs))

\* String.prototype.split(sep), sep one character
RECURSIVE Split(_, _)
Split(cs, sep) ==
    IF \A i \in 1..Len(cs) : cs[i] # sep THEN <<cs>>
    ELSE LET j == CHOOSE i \in 1..Len(cs) :
                     cs[i] = sep /\ \A h \in 1..(i - 1) : cs[h] # sep
         IN  <<SubSeq(cs, 1, j - 1)>> \o Split(SubSeq(cs, j + 1, Len(cs)), sep)

DigitChars == <<"0", "1", "2", "3", "4", "5", "6", "7", "8", "9">>

IsDigit(c) == \E i \in 1..10 : DigitChars[i] = c

DigitVal(c) == (CHOOSE i \in 1..10 : DigitChars[i] = c) - 1

\* the longest prefix of digits
RECURSIVE TakeDigits(_)
TakeDigits(cs) ==
    IF cs # << >> /\ IsDigit(Head(cs)) THEN <<Head(cs)>> \o TakeDigits(Tail(cs))
    ELSE << >>

RECURSIVE DigitsToInt(_, _)
DigitsToInt(cs, acc) ==
    IF cs = << >> THEN acc ELSE DigitsToInt(Tail(cs), 10 * acc + DigitVal(Head(cs)))

RECURSIVE SkipSpaces(_)
SkipSpaces(cs) == IF cs # << >> /\ Head(cs) = " " THEN SkipSpaces(Tail(cs)) ELSE cs

\* the number nearest to sg * n / 10^d: what a decimal literal denotes
Dec(sg, n, d) ==
    IF d = 0 THEN [FromInt(n) EXCEPT !.s = sg]
    ELSE [NumDiv(FromInt(n), FromInt(10 ^ d)) EXCEPT !.s = sg]

\* ToString(undefined)
UndefinedChars == <<"u", "n", "d", "e", "f", "i", "n", "e", "d">>

\* digits ip before and fp after the point
DecimalOf(sg, ip, fp) ==
    IF ip = << >> /\ fp = << >> THEN NaN
    ELSE Dec(sg, DigitsToInt(ip \o fp, 0), Len(fp))

\* integer digits ip followed by rest
FractionOf(sg, ip, rest) ==
    DecimalOf(sg, ip, IF rest # << >> /\ Head(rest) = "." THEN TakeDigits(Tail(rest))
                                                        ELSE << >>)

Unsigned(sg, cs, ip) == FractionOf(sg, ip, SubSeq(cs, Len(ip) + 1, Len(cs)))

Signed(cs) ==
    IF cs # << >> /\ Head(cs) \in {"-", "+"}
    THEN Unsigned(IF Head(cs) = "-" THEN -1 ELSE 1, Tail(cs), TakeDigits(Tail(cs)))
    ELSE Unsigned(1, cs, TakeDigits(cs))

\* parseFloat: leading blanks, a sign, the longest decimal prefix; NaN when
\* there is none (exponent parts and "Infinity" are not in the model's inputs)
parseFloat(cs) == Signed(SkipSpaces(cs))

\* the integer of sign sg and digits ds
IntegerDigits(sg, ds) ==
    IF ds = << >> THEN NaN ELSE [FromInt(DigitsToInt(ds, 0)) EXCEPT !.s = sg]

SignedInteger(cs) ==
    IF cs # << >> /\ Head(cs) \in {"-", "+"}
    THEN IntegerDigits(IF Head(cs) = "-" THEN -1 ELSE 1, TakeDigits(Tail(cs)))
    ELSE IntegerDigits(1, TakeDigits(cs))

\* parseInt: leading blanks, a sign, the longest prefix of digits; NaN when
\* there is none (radix prefixes are not in the model's inputs)
parseInt(cs) == SignedInteger(SkipSpaces(cs))

(***************************************************************************)
(* Material and its subclasses; the three shared instances.                *)
(***************************************************************************)
Material(name, quantity, unit, price) ==
    [name |-> name, quantity |-> IntVal(quantity), unit |-> unit, price |-> price]

Cement(quantity, price, factor) ==
    Material("cement", quantity, "bags", price) @@ [factor |-> factor]

Sand(quantity, price, factor) ==
    Material("sand", quantity, "tons", price) @@ [factor |-> factor]

Ballast(quantity, price, factor) ==
    Material("ballast", quantity, "tons", price) @@ [factor |-> factor]

cement == Cement(50, 700, Dec(1, 2896, 2))

sand == Sand(21, 1350, Dec(1, 18, 1))

ballast == Ballast(42, 2500, Dec(1, 22, 1))

materialList == <<cement, sand, ballast>>

\* a cost stored when the material was constructed
costAtConstruction(mat) ==
    IntVal(materialList[CHOOSE i \in 1..3 : materialList[i].name = mat.name].quantity.v
           * mat.price)

\* get cost(): quantity * price
cost(mat) ==
    IF mat.quantity.k = "int" THEN IntVal(mat.quantity.v * mat.price)
    ELSE IF mat.quantity.k = "NaN" \/ mat.price = 0 THEN NaNVal
    ELSE InfVal(mat.quantity.v * (IF mat.price < 0 THEN -1 ELSE 1))

\* Number to string, in a template literal
NumStr(q) ==
    IF q.k = "int" THEN ToString(q.v)
    ELSE IF q.k = "NaN" THEN "NaN"
    ELSE IF q.v = 1 THEN "Infinity" ELSE "-Infinity"

Undefined == [t |-> "undefined", str |-> ""]

StringVal(str) == [t |-> "string", str |-> str]

\* a describe() without the test of the quantity
describeAlways(mat) ==
    StringVal(mat.name \o "..." \o NumStr(mat.quantity) \o "..." \o mat.unit
              \o "..." \o ToString(mat.price) \o "..." \o NumStr(cost(mat)))

\* describe(): the summary line, or undefined for a quantity of 0
describe(mat) ==
    IF mat.quantity # IntVal(0)
    THEN StringVal(mat.name \o "..." \o NumStr(mat.quantity) \o "..." \o mat.unit
                   \o "..." \o ToString(mat.price) \o "..." \o NumStr(cost(mat)))
    ELSE Undefined

(***************************************************************************)
(* Block, the material with a size "LxTxH" in millimetres.                 *)
(***************************************************************************)
Block(quantity, price, size) ==
    Material("blocks", quantity, "no", price) @@ [size |-> size]

\* blockDimensions[index], undefined past the end
Segment(blockDimensions, index) ==
    IF index < Len(blockDimensions) THEN blockDimensions[index + 1] ELSE UndefinedChars

\* parseInt(segment) / 1000
Metres(cs) == NumDiv(parseInt(cs), FromInt(1000))

DimensionsOf(blockDimensions) ==
    <<Metres(Segment(blockDimensions, 0)), Metres(Segment(blockDimensions, 1)),
      Metres(Segment(blockDimensions, 2))>>

\* sizes of the blocks of the block specification, well formed and not:
\* wrong separator, two segments, a segment that is no number, a segment
\* with a unit after the digits
BlockSizes ==
    { <<"3", "6", "0", "x", "1", "8", "0", "x", "1", "8", "0">>,
      <<"3", "6", "0", "x", "9", "0", "x", "1", "8", "0">>,
      <<"4", "0", "0", "x", "2", "0", "0", "x", "2", "0", "0">>,
      <<"2", "9", "0", "x", "1", "4", "0", "x", "9", "0">>,
      <<"3", "6", "0", "-", "1", "8", "0", "-", "1", "8", "0">>,
      <<"3", "6", "0", "x", "1", "8", "0">>,
      <<"3", "6", "0", "x", "a", "b", "c", "x", "1", "8", "0">>,
      <<"3", "6", "0", "m", "m", "x", "1", "8", "0", "x", "1", "8", "0">> }

\* the dimensions of each size, computed once
SizeDimensions == [size \in BlockSizes |-> DimensionsOf(Split(size, "x"))]

\* getBlockDimensions(): [length, thickness, height]
getBlockDimensions(blk) == SizeDimensions[blk.size]

VolumeOf(dimensions, quantity) ==
    NumMul(NumMul(NumMul(dimensions[1], dimensions[2]), dimensions[3]),
           FromInt(quantity.v))

\* getVolume()
getVolume(blk) == VolumeOf(getBlockDimensions(blk), blk.quantity)

\* the mortar allowance 0.02
Mortar == Dec(1, 2, 2)

\* 1 / ((dimensions[1] + 0.02) * (dimensions[index + 1] + 0.02))
PerArea(dimensions, index) ==
    NumDiv(FromInt(1), NumMul(NumAdd(dimensions[1], Mortar),
                              NumAdd(dimensions[index + 1], Mortar)))

\* a getBlocksPerSquareMeter that takes the thickness for the height
blocksPerSquareMeterOfThickness(blk) == PerArea(getBlockDimensions(blk), 1)

\* getBlocksPerSquareMeter()
getBlocksPerSquareMeter(blk) == PerArea(getBlockDimensions(blk), 2)

(***************************************************************************)
(* Mixes: the calculator object and its methods.  Indices are the code's   *)
(* (0-based).                                                              *)
(***************************************************************************)
Mixes(volume, factor, ratio, hasBallast) ==
    [volume |-> volume, factor |-> factor, ratio |-> ratio, hasBallast |-> hasBallast]

getRatio(mix) == Split(mix.ratio, ":")

getAggregate(mix, index) ==
    LET ratioList == getRatio(mix)
    IN  parseFloat(IF index < Len(ratioList) THEN ratioList[index + 1]
                                             ELSE UndefinedChars)

\* the sum so far plus the third part when there is ballast
WithBallast(mix, two) ==
    IF mix.hasBallast = FALSE THEN two ELSE NumAdd(two, getAggregate(mix, 2))

getSum(mix) == WithBallast(mix, NumAdd(getAggregate(mix, 0), getAggregate(mix, 1)))

\* a getQuantity that leaves out the dry volume factor of the mix
quantityOfWetVolume(mix, index, factor) ==
    MathCeil(NumMul(NumMul(NumDiv(getAggregate(mix, index), getSum(mix)), mix.volume),
                    factor))

\* Math.ceil((comp/sum)*dryVolume*factor) of getQuantity, factor the
\* material's
quantityValue(mix, index, factor) ==
    LET sum       == getSum(mix)
        comp      == getAggregate(mix, index)
        dryVolume == NumMul(mix.volume, mix.factor)
    IN  MathCeil(NumMul(NumMul(NumDiv(comp, sum), dryVolume), factor))

(***************************************************************************)
(* Bounds and inputs of the model.                                         *)
(***************************************************************************)
\* limiter passes modelled, over all identities
MaxRequests == 5

\* browser sessions of the session based server
NSessions == 2

Guest == <<"g", "u", "e", "s", "t">>

\* e-mail strings a client sends: an address, and two names that
\* Object.prototype defines
Emails == { <<"a", "@", "b">>,
            <<"c", "o", "n", "s", "t", "r", "u", "c", "t", "o", "r">>,
            <<"_", "_", "p", "r", "o", "t", "o", "_", "_">> }

\* an absent (or empty) field of a request
Absent == << >>

EmailInputs == Emails \cup {Absent}

Identities == Emails \cup {Guest}

Sessions == 1..NSessions

\* concreteVolume and concreteRatio fields posted to /concrete/submit
SubmitVolumes == { <<"1", "0">> }

SubmitRatios == { <<"1", ":", "2", ":", "4">> }

\* the value of a body field the request does not carry: undefined
UndefinedField == <<"undefined">>

\* the fields posted to the concrete application run on its own
FormVolumes == { <<"1", "0">>, <<"2", "5">>, <<"5", "0">>, <<"0">>, <<"a", "b", "c">> }

FormRatios == { <<"1", ":", "2", ":", "4">>, <<"1", ":", "1", ":", "2">>,
                <<"1", ":", "x", ":", "4">> }

\* calculator inputs of the library specification: volume and factor
\* literals [n, d] (n / 10^d), ratio strings, hasBallast
MixVolumeLits == { [n |-> 10, d |-> 0], [n |-> 125, d |-> 0], [n |-> 100, d |-> 0] }

\* volumes that are not positive: 0, -10, and NaN (d = -1), what parseFloat
\* gives the route for a volume field that is not a number
OtherVolumeLits == { [n |-> 0, d |-> 0], [n |-> -10, d |-> 0], [n |-> 0, d |-> -1] }

\* ratios with a part that is not a number, and with a part of 0
OtherRatios == { <<"1", ":", "x", ":", "4">>, <<"0", ":", "1", ":", "2">> }

MixFactorLits == { [n |-> 154, d |-> 2], [n |-> 133, d |-> 2] }

MixRatios == { <<"1", ":", "2", ":", "4">>, <<"1", ":", "4", ":", "1">>,
               <<"1", ":", "5">>, <<"1", ":", "2">> }

\* the volume and factor the other inputs are combined with: 10 and 1.54
TenLit == [n |-> 10, d |-> 0]

ConcreteFactorLit == [n |-> 154, d |-> 2]

\* blocks of the block specification: their quantities and prices
BlockQuantities == {3000, 1}

BlockPrices == {65, 70}

Blocks ==
    { Block(quantity, price, size) :
        quantity \in BlockQuantities, price \in BlockPrices, size \in BlockSizes }

\* what the three methods return for each block, computed once
BlockTable ==
    [blk \in Blocks |->
       [dimensions     |-> getBlockDimensions(blk),
        volume         |-> getVolume(blk),
        perSquareMeter |-> getBlocksPerSquareMeter(blk)]]

\* the numbers the literals denote, computed once
LitValue ==
    [lt \in MixVolumeLits \cup OtherVolumeLits \cup MixFactorLits |->
       IF lt.d < 0 THEN NaN
       ELSE Dec(IF lt.n < 0 THEN -1 ELSE 1, IF lt.n < 0 THEN -lt.n ELSE lt.n, lt.d)]

Lit(l) == LitValue[l]

\* the dry volume factor the concrete route passes (1.54) and the posted
\* volumes as parseFloat reads them
SubmitFactor == Dec(1, 154, 2)

SubmitVolume == [sv \in SubmitVolumes \cup FormVolumes |-> parseFloat(sv)]

(***************************************************************************)
(* The usage tracker: a plain object used as a map.  Its state is the set  *)
(* of its own properties; a name it does not own is looked up on           *)
(* Object.prototype.                                                       *)
(***************************************************************************)
FREE_LIMIT == 3

UndefVal == [k |-> "undefined", v |-> 0]

\* a function or object inherited from Object.prototype
ObjVal == [k |-> "object", v |-> 0]

ObjectPrototypeNames ==
    { "constructor", "toString", "toLocaleString", "valueOf", "hasOwnProperty",
      "isPrototypeOf", "propertyIsEnumerable", "__proto__", "__defineGetter__",
      "__defineSetter__", "__lookupGetter__", "__lookupSetter__" }

\* obj[key]
Get(obj, key) ==
    IF Str(key) = "__proto__" THEN ObjVal
    ELSE IF key \in DOMAIN obj THEN obj[key]
    ELSE IF Str(key) \in ObjectPrototypeNames THEN ObjVal
    ELSE UndefVal

\* obj[key] = val, val a number: the __proto__ setter ignores it
Put(obj, key, val) ==
    IF Str(key) = "__proto__" THEN obj
    ELSE [h \in DOMAIN obj \cup {key} |-> IF h = key THEN val ELSE obj[h]]

\* !val
Not(val) == val.k \in {"undefined", "NaN"} \/ val = IntVal(0)

\* val >= n
AtLeast(val, n) == val.k = "int" /\ val.v >= n

\* the value val++ stores
Increment(val) == IF val.k = "int" THEN IntVal(val.v + 1) ELSE NaNVal

UnreservedChars ==
    { "a", "b", "c", "d", "e", "f", "g", "h", "i", "j", "k", "l", "m", "n", "o",
      "p", "q", "r", "s", "t", "u", "v", "w", "x", "y", "z", "0", "1", "2", "3",
      "4", "5", "6", "7", "8", "9", "-", "_", ".", "!", "~", "*", "'", "(", ")" }

PercentCode(c) ==
    CASE c = "@" -> <<"%", "4", "0">>
      [] c = " " -> <<"%", "2", "0">>
      [] c = "&" -> <<"%", "2", "6">>
      [] c = "=" -> <<"%", "3", "D">>
      [] c = "+" -> <<"%", "2", "B">>
      [] c = ":" -> <<"%", "3", "A">>
      [] c = "%" -> <<"%", "2", "5">>

RECURSIVE encodeURIComponent(_)
encodeURIComponent(cs) ==
    IF cs = << >> THEN << >>
    ELSE (IF Head(cs) \in UnreservedChars THEN <<Head(cs)>> ELSE PercentCode(Head(cs)))
         \o encodeURIComponent(Tail(cs))

SubscribePath ==
    <<"/", "s", "u", "b", "s", "c", "r", "i", "b", "e", ".", "h", "t", "m", "l",
      "?", "e", "m", "a", "i", "l", "=">>

\* a limiter that checks the count and never increments it
usageLimitNoIncrement(ut, email) ==
    [tracker |-> IF Not(Get(ut, email)) THEN Put(ut, email, IntVal(0)) ELSE ut,
     next    |-> ~AtLeast(Get(ut, email), FREE_LIMIT),
     seen    |-> IF Not(Get(ut, email)) /\ Str(email) # "__proto__" THEN IntVal(0)
                 ELSE Get(ut, email)]

\* one pass of the limiter middleware for identity email on tracker ut: the
\* tracker it leaves, whether next() is called, the count it compared
usageLimit(ut, email) ==
    LET ut1 == IF Not(Get(ut, email)) THEN Put(ut, email, IntVal(0)) ELSE ut
        cur == Get(ut1, email)
    IN  IF AtLeast(cur, FREE_LIMIT)
        THEN [tracker |-> ut1, next |-> FALSE, seen |-> cur]
        ELSE [tracker |-> Put(ut1, email, Increment(cur)), next |-> TRUE, seen |-> cur]

(***************************************************************************)
(* getQuantity and getCost on the shared materials.  QuantityTable holds   *)
(* quantityValue for every calculator the model constructs (its value is   *)
(* computed once instead of in every state).                               *)
(***************************************************************************)
MixInputs ==
    { Mixes(Lit(lv), Lit(lf), rs, hb) :
        lv \in MixVolumeLits, lf \in MixFactorLits, rs \in MixRatios, hb \in BOOLEAN }
    \cup { Mixes(Lit(lv), Lit(ConcreteFactorLit), <<"1", ":", "2", ":", "4">>, TRUE) :
             lv \in OtherVolumeLits }
    \cup { Mixes(Lit(TenLit), Lit(ConcreteFactorLit), rs, hb) :
             rs \in OtherRatios, hb \in BOOLEAN }
    \cup { Mixes(SubmitVolume[sv], SubmitFactor, rs, TRUE) :
             sv \in SubmitVolumes, rs \in SubmitRatios }
    \cup { Mixes(SubmitVolume[sv], SubmitFactor, rs, TRUE) :
             sv \in FormVolumes, rs \in FormRatios }

QuantityTable ==
    [key \in { <<mi, ix, materialList[ix + 1].factor>> : mi \in MixInputs, ix \in 0..2 }
       |-> IntegerOf(quantityValue(key[1], key[2], key[3]))]

\* a getQuantity step that sets the quantity of a copy of the material and
\* leaves the shared one alone
SetQuantityOnCopy(mats, index, quantity) ==
    [mats |-> mats,
     ret  |-> describe([mats[index + 1] EXCEPT !.quantity = quantity])]

\* a getQuantity step that describes the material before it sets the quantity
SetQuantityAfterDescribe(mats, index, quantity) ==
    [mats |-> [mats EXCEPT ![index + 1].quantity = quantity],
     ret  |-> describe(mats[index + 1])]

\* material.quantity = quantity; return material.describe()
SetQuantity(mats, index, quantity) ==
    [mats |-> [mats EXCEPT ![index + 1].quantity = quantity],
     ret  |-> describe([mats[index + 1] EXCEPT !.quantity = quantity])]

\* a getQuantity that adds to the quantity the material has
getQuantityAdding(mats, mix, index) ==
    SetQuantity(mats, index,
                IF mats[index + 1].quantity.k = "int"
                   /\ QuantityTable[<<mix, index, mats[index + 1].factor>>].k = "int"
                THEN IntVal(mats[index + 1].quantity.v
                            + QuantityTable[<<mix, index, mats[index + 1].factor>>].v)
                ELSE NaNVal)

\* getQuantity(index) of calculator mix on materials mats: the materials it
\* leaves and the description it returns
getQuantity(mats, mix, index) ==
    SetQuantity(mats, index, QuantityTable[<<mix, index, mats[index + 1].factor>>])

\* the array literal of getCost: getQuantity(index) for each index in turn
RECURSIVE getQuantities(_, _, _, _)

Collect(got, mix, indices, rets) ==
    getQuantities(got.mats, mix, indices, Append(rets, got.ret))

getQuantities(mats, mix, indices, rets) ==
    IF indices = << >> THEN [mats |-> mats, ret |-> rets]
    ELSE Collect(getQuantity(mats, mix, Head(indices)), mix, Tail(indices), rets)

\* a getCost() that lists the materials in reverse
getCostReversed(mats, mix) == getQuantities(mats, mix, <<2, 1, 0>>, << >>)

\* Concrete.getCost()
getCost(mats, mix) == getQuantities(mats, mix, <<0, 1, 2>>, << >>)

(***************************************************************************)
(* State.                                                                  *)
(***************************************************************************)
VARIABLES
    mode,          \* which program runs: "home" (home.js), "session" (the
                   \* session based server), "library" (the calculator alone),
                   \* "concrete" (concrete.js), "blocks" (the Block class),
                   \* "routes" (routes/server.js)
    materials,     \* the shared cement, sand, ballast records
    concrete,      \* the calculator object last constructed
    results,       \* what its getCost() last returned
    usageTracker,  \* own properties of the usageTracker object
    session,       \* req.session.email of each browser session
    response,      \* the response last sent
    outcomes,      \* per identity, the limiter's passes in order
    paid,          \* identities with a successful payment since their last pass
    block,         \* the Block object
    measured,      \* the method of block last called and what it returned
    pending        \* routes/server.js: per client, its POST /login requests
                   \* awaiting the MX lookup

vars == <<mode, materials, concrete, results, usageTracker, session, response,
          outcomes, paid, block, measured, pending>>

\* no POST /login in flight
NoLogins == [sn \in Sessions |-> {}]

NoBlock == [none |-> TRUE]

NoMeasure == [op |-> "none", value |-> << >>]

\* what method op of block blk returns
Measure(op, blk) ==
    [op |-> op,
     value |-> CASE op = "getBlockDimensions" -> BlockTable[blk].dimensions
                 [] op = "getVolume" -> BlockTable[blk].volume
                 [] op = "getBlocksPerSquareMeter" -> BlockTable[blk].perSquareMeter]

\* home.js: let block = new Block(3000, 65, "360x180x180")
HomeBlock ==
    Block(3000, 65, <<"3", "6", "0", "x", "1", "8", "0", "x", "1", "8", "0">>)

NoMix == [none |-> TRUE]

NoResponse == [status |-> 0, kind |-> "none", who |-> Absent, redirectTo |-> << >>,
               body |-> << >>]

\* res.status(403).json({message, redirectTo})
LimitReached(email) ==
    [status |-> 403, kind |-> "limit", who |-> email,
     redirectTo |-> SubscribePath \o encodeURIComponent(email), body |-> << >>]

Page(kind, email) ==
    [status |-> 200, kind |-> kind, who |-> email, redirectTo |-> << >>, body |-> << >>]

Redirect(path, email) ==
    [status |-> 302, kind |-> "redirect", who |-> email, redirectTo |-> path,
     body |-> << >>]

EmailRequired(email) ==
    [status |-> 400, kind |-> "email required", who |-> email, redirectTo |-> << >>,
     body |-> << >>]

Calculation(email, list) ==
    [status |-> 200, kind |-> "calculation", who |-> email, redirectTo |-> << >>,
     body |-> list]

Init ==
    /\ mode \in {"home", "session"}
    /\ materials = materialList
    /\ concrete = NoMix
    /\ results = << >>
    /\ usageTracker = << >>
    /\ session = [sn \in Sessions |-> Absent]
    /\ response = NoResponse
    /\ outcomes = [id \in Identities |-> << >>]
    /\ paid = {}
    /\ block = IF mode = "home" THEN HomeBlock ELSE NoBlock
    /\ measured = IF mode = "home" THEN Measure("getBlocksPerSquareMeter", HomeBlock)
                  ELSE NoMeasure
    /\ pending = NoLogins

\* req.query.email || req.body.email || "guest"
HomeIdentity(qe, be) == IF qe # Absent THEN qe ELSE IF be # Absent THEN be ELSE Guest

\* req.session.email || "guest"
SessionIdentity(sn) == IF session[sn] # Absent THEN session[sn] ELSE Guest

RECURSIVE Passes(_)
\* limiter passes so far, over the identities of set ids
Passes(ids) ==
    IF ids = {} THEN 0
    ELSE Len(outcomes[CHOOSE id \in ids : TRUE])
         + Passes(ids \ {CHOOSE id \in ids : TRUE})

\* the identity was last answered 403 and sent to the subscribe page
AtLimit(email) ==
    /\ outcomes[email] # << >>
    /\ ~outcomes[email][Len(outcomes[email])].next

\* the limiter's pass for identity email, followed by the handler's response
\* page when next() is called
Limiter(email, page) ==
    LET pass == usageLimit(usageTracker, email)
    IN  /\ Passes(Identities) < MaxRequests
        /\ outcomes' = [outcomes EXCEPT ![email] =
                          Append(@, [seen |-> pass.seen, next |-> pass.next,
                                     paid |-> email \in paid])]
        /\ paid' = paid \ {email}
        /\ usageTracker' = pass.tracker
        /\ response' = IF pass.next THEN page ELSE LimitReached(email)

\* home.js: a request no mounted route answers (GET /)
HomeGet(qe, be) ==
    /\ mode = "home"
    /\ Limiter(HomeIdentity(qe, be), Page("home", HomeIdentity(qe, be)))
    /\ UNCHANGED <<pending, block, measured, mode, materials, concrete, results, session>>

\* the identity a request to a calculator route carries
Requester(qe, be, sn) == IF mode = "home" THEN HomeIdentity(qe, be) ELSE SessionIdentity(sn)

\* the calculation POST /submit of the concrete route sends
Calculated(email, made, got) ==
    /\ concrete' = made
    /\ materials' = got.mats
    /\ results' = got.ret
    /\ response' = Calculation(email, got.ret)

Calculate(email, made) == Calculated(email, made, getCost(materials, made))

\* Express's default error handler answers a request whose handler threw
InternalServerError(email) ==
    [status |-> 500, kind |-> "error", who |-> email, redirectTo |-> << >>,
     body |-> << >>]

\* getCost() threw in getRatio (split of undefined) before any assignment:
\* the handler is left, Express catches the exception and answers 500
Threw(email, made) ==
    /\ concrete' = made
    /\ response' = InternalServerError(email)
    /\ UNCHANGED <<materials, results>>

\* POST /submit of concrete.js: POST /concrete/submit of the two servers,
\* which mount the route before the limiter, and POST /submit of the concrete
\* application run on its own
ConcreteSubmit(qe, be, sn, sv, rs) ==
    /\ mode \in {"home", "session", "concrete"}
    /\ mode # "session" => sn = 1
    /\ mode # "home" => qe = Absent /\ be = Absent
    /\ IF rs = UndefinedField
       THEN Threw(Requester(qe, be, sn), Mixes(SubmitVolume[sv], SubmitFactor, rs, TRUE))
       ELSE Calculate(Requester(qe, be, sn),
                      Mixes(SubmitVolume[sv], SubmitFactor, rs, TRUE))
    /\ UNCHANGED <<pending, block, measured, mode, usageTracker, session, outcomes, paid>>

\* session server: GET /login
GetLogin(sn) ==
    /\ mode = "session"
    /\ Limiter(SessionIdentity(sn), Page("login", SessionIdentity(sn)))
    /\ UNCHANGED <<pending, block, measured, mode, materials, concrete, results, session>>

\* session server: GET /
GetHome(sn) ==
    /\ mode = "session"
    /\ Limiter(SessionIdentity(sn),
               IF session[sn] = Absent
               THEN Redirect(<<"/", "l", "o", "g", "i", "n">>, SessionIdentity(sn))
               ELSE Page("home", SessionIdentity(sn)))
    /\ UNCHANGED <<pending, block, measured, mode, materials, concrete, results, session>>

\* a login that starts the identity's count afresh
loginTrackerReset(ut, be) == Put(ut, be, IntVal(0))

\* the POST /login handler on tracker ut: the tracker it leaves
loginTracker(ut, be) == IF Not(Get(ut, be)) THEN Put(ut, be, IntVal(0)) ELSE ut

\* a POST /login mounted before the limiter: it takes no pass
PostLoginUnlimited(sn, be) ==
    /\ mode = "session"
    /\ be # Absent
    /\ session' = [session EXCEPT ![sn] = be]
    /\ usageTracker' = loginTracker(usageTracker, be)
    /\ response' = Redirect(<<"/">>, SessionIdentity(sn))
    /\ UNCHANGED <<pending, block, measured, mode, materials, concrete, results, outcomes, paid>>

\* session server: POST /login with body e-mail be
PostLogin(sn, be) ==
    LET email == SessionIdentity(sn)
        pass  == usageLimit(usageTracker, email)
    IN  /\ mode = "session"
        /\ Passes(Identities) < MaxRequests
        /\ outcomes' = [outcomes EXCEPT ![email] =
                          Append(@, [seen |-> pass.seen, next |-> pass.next,
                                     paid |-> email \in paid])]
        /\ paid' = paid \ {email}
        /\ IF ~pass.next
           THEN /\ response' = LimitReached(email)
                /\ usageTracker' = pass.tracker
                /\ UNCHANGED session
           ELSE IF be = Absent
           THEN /\ response' = EmailRequired(email)
                /\ usageTracker' = pass.tracker
                /\ UNCHANGED session
           ELSE /\ session' = [session EXCEPT ![sn] = be]
                /\ usageTracker' = loginTracker(pass.tracker, be)
                /\ response' = Redirect(<<"/">>, email)
        /\ UNCHANGED <<pending, block, measured, mode, materials, concrete, results>>

\* a payment of identity email, sent to the subscribe page, succeeds (the
\* paystack route, mounted before the limiter; the tracker is local to the
\* server file and out of its reach)
PaymentSuccess(email) ==
    /\ mode \in {"home", "session"}
    /\ AtLimit(email)
    /\ email \notin paid
    /\ paid' = paid \cup {email}
    /\ UNCHANGED <<pending, block, measured, mode, materials, concrete, results, usageTracker,
                   session,
                   response, outcomes>>

Next ==
    \/ \E qe \in EmailInputs, be \in EmailInputs : HomeGet(qe, be)
    \/ \E qe \in EmailInputs, be \in EmailInputs, sn \in Sessions,
          sv \in SubmitVolumes, rs \in SubmitRatios : ConcreteSubmit(qe, be, sn, sv, rs)
    \/ \E sn \in Sessions : GetLogin(sn)
    \/ \E sn \in Sessions : GetHome(sn)
    \/ \E sn \in Sessions, be \in EmailInputs : PostLogin(sn, be)
    \/ \E id \in Identities : PaymentSuccess(id)

Spec == Init /\ [][Next]_vars

\* the server answers every request it is sent
FairSpec == Spec /\ WF_vars(Next)

(***************************************************************************)
(* The calculator used alone: construct a Concrete, call getCost().        *)
(***************************************************************************)
InitMix ==
    /\ mode = "library"
    /\ materials = materialList
    /\ concrete = NoMix
    /\ results = << >>
    /\ usageTracker = << >>
    /\ session = [sn \in Sessions |-> Absent]
    /\ response = NoResponse
    /\ outcomes = [id \in Identities |-> << >>]
    /\ paid = {}
    /\ block = NoBlock
    /\ measured = NoMeasure
    /\ pending = NoLogins

\* new Concrete(volume, factor, ratio, hasBallast)
NewConcrete(lv, lf, rs, hb) ==
    /\ concrete' = Mixes(Lit(lv), Lit(lf), rs, hb)
    /\ results' = << >>
    /\ UNCHANGED <<pending, block, measured, mode, materials, usageTracker, session, response,
                   outcomes, paid>>

\* what getCost() left and returned
Returned(got) ==
    /\ materials' = got.mats
    /\ results' = got.ret

\* concrete.getCost()
GetCost ==
    /\ concrete # NoMix
    /\ Returned(getCost(materials, concrete))
    /\ UNCHANGED <<pending, block, measured, mode, concrete, usageTracker, session, response,
                   outcomes, paid>>

NextMix ==
    \/ \E lv \in MixVolumeLits, lf \in MixFactorLits, rs \in MixRatios, hb \in BOOLEAN :
          NewConcrete(lv, lf, rs, hb)
    \/ \E lv \in OtherVolumeLits :
          NewConcrete(lv, ConcreteFactorLit, <<"1", ":", "2", ":", "4">>, TRUE)
    \/ \E rs \in OtherRatios, hb \in BOOLEAN :
          NewConcrete(TenLit, ConcreteFactorLit, rs, hb)
    \/ GetCost

SpecMix == InitMix /\ [][NextMix]_vars

(***************************************************************************)
(* concrete.js run on its own: the form and its submission.                *)
(***************************************************************************)
InitConcrete ==
    /\ mode = "concrete"
    /\ materials = materialList
    /\ concrete = NoMix
    /\ results = << >>
    /\ usageTracker = << >>
    /\ session = [sn \in Sessions |-> Absent]
    /\ response = NoResponse
    /\ outcomes = [id \in Identities |-> << >>]
    /\ paid = {}
    /\ block = NoBlock
    /\ measured = NoMeasure
    /\ pending = NoLogins

\* GET / of concrete.js: the form
ConcreteForm ==
    /\ response' = Page("concrete form", Guest)
    /\ UNCHANGED <<pending, block, measured, mode, materials, concrete, results, usageTracker,
                   session, outcomes, paid>>

NextConcrete ==
    \/ ConcreteForm
    \/ \E sv \in FormVolumes, rs \in FormRatios \cup {UndefinedField} :
          ConcreteSubmit(Absent, Absent, 1, sv, rs)

SpecConcrete == InitConcrete /\ [][NextConcrete]_vars

(***************************************************************************)
(* A Block used alone: construct it, call its methods.                     *)
(***************************************************************************)
InitBlock ==
    /\ mode = "blocks"
    /\ materials = materialList
    /\ concrete = NoMix
    /\ results = << >>
    /\ usageTracker = << >>
    /\ session = [sn \in Sessions |-> Absent]
    /\ response = NoResponse
    /\ outcomes = [id \in Identities |-> << >>]
    /\ paid = {}
    /\ block \in Blocks
    /\ measured = NoMeasure
    /\ pending = NoLogins

\* block.getBlockDimensions()
GetBlockDimensions ==
    /\ measured' = Measure("getBlockDimensions", block)
    /\ UNCHANGED <<pending, block, mode, materials, concrete, results, usageTracker, session,
                   response, outcomes, paid>>

\* block.getVolume()
GetVolume ==
    /\ measured' = Measure("getVolume", block)
    /\ UNCHANGED <<pending, block, mode, materials, concrete, results, usageTracker, session,
                   response, outcomes, paid>>

\* block.getBlocksPerSquareMeter()
GetBlocksPerSquareMeter ==
    /\ measured' = Measure("getBlocksPerSquareMeter", block)
    /\ UNCHANGED <<pending, block, mode, materials, concrete, results, usageTracker, session,
                   response, outcomes, paid>>

NextBlock == GetBlockDimensions \/ GetVolume \/ GetBlocksPerSquareMeter

SpecBlock == InitBlock /\ [][NextBlock]_vars

(***************************************************************************)
(* routes/server.js: login with e-mail validation, home page and logout.   *)
(* session[sn] is req.session.email of the session the cookie of client sn *)
(* names.  POST /login awaits the MX lookup of enhancedEmailValidation, and *)
(* other requests are handled while it waits: pending[sn] holds the        *)
(* requests of client sn that wait.  A request that finishes after the      *)
(* session was destroyed saves its session again under the same id.        *)
(***************************************************************************)
\* the characters of a string literal
Chars(str) == [i \in 1..Len(str) |-> SubSeq(str, i, i)]

\* req.body.email: a string
StringBody(str) == [t |-> "string", chars |-> Chars(str)]

\* req.body.email: an array of one string (JSON, or email[]=... in a form);
\* chars is what String(email) gives
ArrayBody(str) == [t |-> "array", chars |-> Chars(str)]

\* no email field in the body
NoBody == [t |-> "undefined", chars |-> << >>]

\* e-mail fields posted to /login: none, empty, without a dot after the @,
\* of a disposable domain in capitals, of a domain that contains "test", an
\* ordinary address, and that address in an array
LoginBodies ==
    { NoBody, StringBody(""), StringBody("a@b"), StringBody("u@YopMail.com"),
      StringBody("u@contest.org"), StringBody("u@mail.org"), ArrayBody("u@mail.org") }

\* what dns.resolveMx gives: records, an empty list, or an error code
MxOutcomes == { "records", "empty", "ENOTFOUND", "ENODATA", "ETIMEOUT" }

\* !email is false
Present(email) == email.t = "array" \/ (email.t = "string" /\ email.chars # << >>)

\* characters \s matches
WhiteSpace == { " ", "\t", "\n", "\r" }

\* /^[^\s@]+@[^\s@]+\.[^\s@]+$/.test(email), cs the characters of String(email)
isValidEmail(cs) ==
    \E i \in 1..Len(cs), j \in 1..Len(cs) :
        /\ cs[i] = "@" /\ cs[j] = "."
        /\ 1 < i /\ i + 1 < j /\ j < Len(cs)
        /\ \A h \in 1..Len(cs) : cs[h] \notin WhiteSpace /\ (cs[h] = "@" => h = i)

UpperChars == Chars("ABCDEFGHIJKLMNOPQRSTUVWXYZ")

LowerChars == Chars("abcdefghijklmnopqrstuvwxyz")

toLowerCase(cs) ==
    [i \in 1..Len(cs) |->
        IF \E h \in 1..26 : UpperChars[h] = cs[i]
        THEN LowerChars[CHOOSE h \in 1..26 : UpperChars[h] = cs[i]]
        ELSE cs[i]]

\* email.split('@')[1]
DomainOf(cs) == Split(cs, "@")[2]

disposableDomains ==
    { Chars(d) : d \in
        { "tempmail.com", "guerrillamail.com", "mailinator.com", "10minutemail.com",
          "throwaway.com", "fakeinbox.com", "yopmail.com", "trashmail.com",
          "disposable.com", "temp-mail.org", "getairmail.com", "sharklasers.com",
          "maildrop.cc", "tempail.com", "fake-mail.com", "throwawaymail.com",
          "tempmail.net", "trashmail.net", "dispostable.com", "mailmetrash.com" } }

\* results of the validation: {valid: true}, {valid: false, reason}, an
\* exception, and (before the lookup) nothing yet
Valid(note) == [kind |-> "valid", reason |-> note]

Invalid(reason) == [kind |-> "invalid", reason |-> reason]

TypeError == [kind |-> "threw", reason |-> "email.split is not a function"]

Lookup == [kind |-> "lookup", reason |-> ""]

checkDisposableEmail(cs) ==
    IF toLowerCase(DomainOf(cs)) \in disposableDomains
    THEN Invalid("Temporary or disposable email addresses are not allowed")
    ELSE Valid("")

\* enhancedEmailValidation up to the await: steps 1 and 2
beforeLookup(email) ==
    IF ~isValidEmail(email.chars) THEN Invalid("Invalid email format")
    ELSE IF email.t # "string" THEN TypeError
    ELSE IF checkDisposableEmail(email.chars).kind = "invalid"
    THEN checkDisposableEmail(email.chars)
    ELSE Lookup

\* step 3: the result for what dns.resolveMx gave
mxCheck(found) ==
    CASE found = "records" -> Valid("")
      [] found = "empty" -> Invalid("This email domain does not exist or does not accept emails")
      [] found = "ENOTFOUND" -> Invalid("The email domain does not exist")
      [] found = "ENODATA" -> Invalid("This domain exists but does not accept emails")
      [] OTHER -> Valid("Domain verification failed")

enhancedEmailValidation(email, found) ==
    IF beforeLookup(email).kind = "lookup" THEN mxCheck(found) ELSE beforeLookup(email)

suspiciousDomains == { Chars("example.com"), Chars("test.com"), Chars("localhost"), Chars("test") }

\* cs.includes(part)
includes(cs, part) ==
    \E i \in 0..(Len(cs) - Len(part)) : SubSeq(cs, i + 1, i + Len(part)) = part

\* suspiciousDomains.some(suspicious => domain.includes(suspicious))
isSuspicious(cs) ==
    \E suspicious \in suspiciousDomains : includes(toLowerCase(DomainOf(cs)), suspicious)

\* sendErrorResponse(res, message)
sendErrorResponse(email, message) ==
    [status |-> 400, kind |-> "error", who |-> email, redirectTo |-> << >>,
     body |-> <<message>>]

\* the POST /login handler after a validation that gave result: it logs the
\* client in, or the message of the error page it sends
loginOutcome(email, result) ==
    CASE result.kind = "threw" -> [login |-> FALSE, message |-> "An error occurred during email verification"]
      [] result.kind = "invalid" -> [login |-> FALSE, message |-> result.reason]
      [] OTHER ->
           IF isSuspicious(email.chars)
           THEN [login |-> FALSE, message |-> "Please use a real email domain"]
           ELSE [login |-> TRUE, message |-> ""]

\* beforeLookup and, for each result of the lookup, loginOutcome of every
\* e-mail field the model posts (computed once instead of in every state)
LoginTable ==
    [email \in LoginBodies |->
        [before |-> beforeLookup(email),
         after  |-> [found \in MxOutcomes |->
                       loginOutcome(email, enhancedEmailValidation(email, found))]]]

\* res.redirect("/login")
LoginPath == Chars("/login")

\* POST /login requests of one client that may wait at a time
MaxInflight == 1

InitRoutes ==
    /\ mode = "routes"
    /\ materials = materialList
    /\ concrete = NoMix
    /\ results = << >>
    /\ usageTracker = << >>
    /\ session = [sn \in Sessions |-> Absent]
    /\ response = NoResponse
    /\ outcomes = [id \in Identities |-> << >>]
    /\ paid = {}
    /\ block = NoBlock
    /\ measured = NoMeasure
    /\ pending = NoLogins

\* GET /login
RoutesGetLogin(sn) ==
    /\ mode = "routes"
    /\ response' = Page("login", session[sn])
    /\ UNCHANGED <<pending, block, measured, mode, materials, concrete, results,
                   usageTracker, session, outcomes, paid>>

\* POST /login up to the await: without email, or with one that steps 1 and
\* 2 of the validation settle, it answers at once; else it waits for the lookup
RoutesLoginStart(sn, email) ==
    /\ mode = "routes"
    /\ IF ~Present(email)
       THEN /\ response' = sendErrorResponse(session[sn], "Email is required to continue.")
            /\ UNCHANGED pending
       ELSE IF LoginTable[email].before.kind # "lookup"
       THEN /\ response' = sendErrorResponse(session[sn],
                              loginOutcome(email, LoginTable[email].before).message)
            /\ UNCHANGED pending
       ELSE /\ Cardinality(pending[sn] \ {email}) < MaxInflight
            /\ pending' = [pending EXCEPT ![sn] = @ \cup {email}]
            /\ UNCHANGED response
    /\ UNCHANGED <<block, measured, mode, materials, concrete, results, usageTracker,
                   session, outcomes, paid>>

\* a POST /login that logs the client in whatever the validation gave
RoutesLoginFinishUnvalidated(sn, email, found) ==
    /\ mode = "routes"
    /\ email \in pending[sn]
    /\ pending' = [pending EXCEPT ![sn] = @ \ {email}]
    /\ session' = [session EXCEPT ![sn] = email.chars]
    /\ response' = Redirect(<<"/">>, email.chars)
    /\ UNCHANGED <<block, measured, mode, materials, concrete, results, usageTracker,
                   outcomes, paid>>

\* POST /login from the await on, dns.resolveMx having given found
RoutesLoginFinish(sn, email, found) ==
    /\ mode = "routes"
    /\ email \in pending[sn]
    /\ pending' = [pending EXCEPT ![sn] = @ \ {email}]
    /\ IF LoginTable[email].after[found].login
       THEN /\ session' = [session EXCEPT ![sn] = email.chars]
            /\ response' = Redirect(<<"/">>, email.chars)
       ELSE /\ response' = sendErrorResponse(session[sn],
                                             LoginTable[email].after[found].message)
            /\ UNCHANGED session
    /\ UNCHANGED <<block, measured, mode, materials, concrete, results, usageTracker,
                   outcomes, paid>>

\* GET /
RoutesGetHome(sn) ==
    /\ mode = "routes"
    /\ response' = IF session[sn] = Absent
                   THEN Redirect(LoginPath, session[sn])
                   ELSE Page("home", session[sn])
    /\ UNCHANGED <<pending, block, measured, mode, materials, concrete, results,
                   usageTracker, session, outcomes, paid>>

\* GET /logout: req.session.destroy, then the redirect
RoutesLogout(sn) ==
    /\ mode = "routes"
    /\ session' = [session EXCEPT ![sn] = Absent]
    /\ response' = Redirect(LoginPath, Absent)
    /\ UNCHANGED <<pending, block, measured, mode, materials, concrete, results,
                   usageTracker, outcomes, paid>>

NextRoutes ==
    \/ \E sn \in Sessions : RoutesGetLogin(sn)
    \/ \E sn \in Sessions, email \in LoginBodies : RoutesLoginStart(sn, email)
    \/ \E sn \in Sessions, found \in MxOutcomes :
          \E email \in pending[sn] : RoutesLoginFinish(sn, email, found)
    \/ \E sn \in Sessions : RoutesGetHome(sn)
    \/ \E sn \in Sessions : RoutesLogout(sn)

SpecRoutes == InitRoutes /\ [][NextRoutes]_vars

(***************************************************************************)
(* Properties of the usage limiter.                                        *)
(***************************************************************************)
\* the i-th limiter pass of identity id
Pass(id, i) == outcomes[id][i]

\* the stored count of identity id on tracker ut, 0 before it is created
CountOf(ut, id) == IF Get(ut, id).k = "int" THEN Get(ut, id).v ELSE 0

PercentChar(code) == CHOOSE c \in {"@", " ", "&", "=", "+", ":", "%"} : PercentCode(c) = code

RECURSIVE decodeURIComponent(_)
decodeURIComponent(cs) ==
    IF cs = << >> THEN << >>
    ELSE IF Head(cs) = "%" /\ Len(cs) >= 3
         THEN <<PercentChar(SubSeq(cs, 1, 3))>> \o decodeURIComponent(SubSeq(cs, 4, Len(cs)))
         ELSE <<Head(cs)>> \o decodeURIComponent(Tail(cs))

\* the redirect hint path names identity id: it is the subscribe page with id
\* as its email parameter
NamesIdentity(path, id) ==
    /\ Len(path) >= Len(SubscribePath)
    /\ SubSeq(path, 1, Len(SubscribePath)) = SubscribePath
    /\ decodeURIComponent(SubSeq(path, Len(SubscribePath) + 1, Len(path))) = id

\* C1: for every identity the first FREE_LIMIT passes through the limiter are
\* accepted and the next one is rejected, whatever other identities do in
\* between.
C1_FirstThreeThenRejected ==
    \A id \in Identities : \A i \in 1..Len(outcomes[id]) :
        /\ i <= FREE_LIMIT => Pass(id, i).next
        /\ i = FREE_LIMIT + 1 => ~Pass(id, i).next

\* C2: a calculation result is never sent to an identity whose count has
\* reached the free limit (every calculation request passes the limiter first).
C2_NoCalculationAtLimit ==
    ~(response.kind = "calculation"
      /\ AtLeast(Get(usageTracker, response.who), FREE_LIMIT))

\* two accepted passes of one identity compared the same count
RaceObserved ==
    \E id \in Identities : \E i, j \in 1..Len(outcomes[id]) :
        /\ i < j
        /\ Pass(id, i).next /\ Pass(id, j).next
        /\ Pass(id, i).seen.k = "int"
        /\ Pass(id, i).seen = Pass(id, j).seen

\* C3 (as stated): the limiter races: two requests of one identity pass the
\* check on the same count before either increments.
C3_RaceOccurs == <>RaceObserved

\* C3 (amended): check and increment run in one handler invocation, so the
\* counts that the accepted passes of one identity compared are strictly
\* increasing: no two of them passed the check on the same count.
C3_NoSharedCount ==
    \A id \in Identities : \A i, j \in 1..Len(outcomes[id]) :
        (/\ i < j
         /\ Pass(id, i).next /\ Pass(id, j).next
         /\ Pass(id, i).seen.k = "int" /\ Pass(id, j).seen.k = "int")
        => Pass(id, i).seen.v < Pass(id, j).seen.v

\* C3 witness: an identity was accepted FREE_LIMIT times on the counts
\* 0 .. FREE_LIMIT - 1 and then rejected, with passes of another identity made
\* meanwhile.
C3_Witness ==
    \E id \in Identities, other \in Identities :
        /\ other # id
        /\ outcomes[other] # << >>
        /\ Len(outcomes[id]) > FREE_LIMIT
        /\ \A i \in 1..FREE_LIMIT : Pass(id, i).next /\ Pass(id, i).seen = IntVal(i - 1)
        /\ ~Pass(id, FREE_LIMIT + 1).next

\* C4: a pass made after a successful payment of the identity finds the count
\* at 0 and is accepted.
C4_PaymentResets ==
    \A id \in Identities : \A i \in 1..Len(outcomes[id]) :
        Pass(id, i).paid => Pass(id, i).next /\ Pass(id, i).seen = IntVal(0)

\* C5: in every step a stored count stays a count and does not decrease, and
\* an identity whose last pass was rejected is rejected on its next pass (so
\* on every later one): no decay, no reset by time or by login.
C5_NoDecreaseNoReset ==
    [][\A id \in Identities :
          /\ Get(usageTracker, id).k = "int"
             => /\ Get(usageTracker', id).k = "int"
                /\ Get(usageTracker', id).v >= Get(usageTracker, id).v
          /\ (AtLimit(id) /\ outcomes'[id] # outcomes[id])
             => ~outcomes'[id][Len(outcomes'[id])].next]_vars

\* C5 witness: an identity at the limit was rejected, asked again and was
\* rejected again, its count still FREE_LIMIT.
C5_Witness ==
    \E id \in Identities :
        /\ Len(outcomes[id]) >= FREE_LIMIT + 2
        /\ ~Pass(id, FREE_LIMIT + 1).next
        /\ ~Pass(id, FREE_LIMIT + 2).next
        /\ Get(usageTracker, id) = IntVal(FREE_LIMIT)

\* C6: one pass of the limiter for identity id either finds the count at the
\* limit, rejects with a redirect hint naming id and changes no count, or
\* finds it below, adds exactly 1 to the count of id, changes no other count
\* and lets the request through.
C6_PassEffect ==
    \A id \in Identities :
        IF CountOf(usageTracker, id) >= FREE_LIMIT
        THEN /\ ~usageLimit(usageTracker, id).next
             /\ usageLimit(usageTracker, id).tracker = usageTracker
             /\ NamesIdentity(LimitReached(id).redirectTo, id)
        ELSE /\ usageLimit(usageTracker, id).next
             /\ Get(usageLimit(usageTracker, id).tracker, id)
                  = IntVal(CountOf(usageTracker, id) + 1)
             /\ \A other \in Identities \ {id} :
                   CountOf(usageLimit(usageTracker, id).tracker, other)
                     = CountOf(usageTracker, other)

(***************************************************************************)
(* Properties of the mix calculator.                                       *)
(***************************************************************************)
\* new Concrete(10, 1.54, "1:2:4", true)
ExampleMix ==
    Mixes(Lit([n |-> 10, d |-> 0]), Lit([n |-> 154, d |-> 2]),
          <<"1", ":", "2", ":", "4">>, TRUE)

\* C7: after getCost() on volume 10, ratio "1:2:4", factor 1.54 with ballast,
\* the quantities are cement 64, sand 8, ballast 20.
C7_ExampleQuantities ==
    (concrete = ExampleMix /\ results # << >>)
    => /\ materials[1].quantity = IntVal(64)
       /\ materials[2].quantity = IntVal(8)
       /\ materials[3].quantity = IntVal(20)

\* C7 witness: getCost() has returned for the example, with the three
\* descriptions of 64 bags, 8 tons and 20 tons.
C7_Witness ==
    /\ concrete = ExampleMix
    /\ results = <<StringVal("cement...64...bags...700...44800"),
                   StringVal("sand...8...tons...1350...10800"),
                   StringVal("ballast...20...tons...2500...50000")>>

\* the catalog factors 28.96, 1.8, 2.2 as decimals [n, d]
CatalogFactorLits == <<[n |-> 2896, d |-> 2], [n |-> 18, d |-> 1], [n |-> 22, d |-> 1]>>

CatalogFactors == [i \in 1..3 |-> Dec(1, CatalogFactorLits[i].n, CatalogFactorLits[i].d)]

\* the parts of ratio string rs as integers
RatioParts(rs) == [i \in 1..Len(Split(rs, ":")) |-> DigitsToInt(Split(rs, ":")[i], 0)]

RECURSIVE SumOf(_)
SumOf(parts) == IF parts = << >> THEN 0 ELSE Head(parts) + SumOf(Tail(parts))

\* valid inputs: a positive volume and factor, as many positive numeric ratio
\* parts as hasBallast declares; with the index ix of one of the parts
ValidInputs ==
    { in \in [lv : MixVolumeLits, lf : MixFactorLits, rs : MixRatios, hb : BOOLEAN] :
        /\ in.lv.n > 0 /\ in.lf.n > 0
        /\ Len(Split(in.rs, ":")) = (IF in.hb THEN 3 ELSE 2)
        /\ \A i \in 1..Len(Split(in.rs, ":")) :
              /\ Split(in.rs, ":")[i] # << >>
              /\ \A h \in 1..Len(Split(in.rs, ":")[i]) : IsDigit(Split(in.rs, ":")[i][h])
        /\ SumOf(RatioParts(in.rs)) > 0 }

MixOf(in) == Mixes(Lit(in.lv), Lit(in.lf), in.rs, in.hb)

\* the least integer >= (part / sum) * volume * mixFactor * materialFactor, in
\* exact arithmetic on the decimals
ExactCeil(in, ix) ==
    LET num == RatioParts(in.rs)[ix + 1] * in.lv.n * in.lf.n * CatalogFactorLits[ix + 1].n
        den == SumOf(RatioParts(in.rs))
               * 10 ^ (in.lv.d + in.lf.d + CatalogFactorLits[ix + 1].d)
    IN  (num + den - 1) \div den

ExactQuantity ==
    [c \in { <<in, ix>> \in ValidInputs \X (0..2) : ix < Len(Split(in.rs, ":")) }
       |-> ExactCeil(c[1], c[2])]

\* C8: for valid inputs the quantity getQuantity(i) assigned is the least
\* integer not below the exact requirement
\* (part_i / sum) * volume * mixFactor * materialFactor_i.
C8_ExactCeiling ==
    \A c \in DOMAIN ExactQuantity :
        (/\ concrete = MixOf(c[1])
         /\ results # << >>
         /\ materials[c[2] + 1].factor = CatalogFactors[c[2] + 1])
        => materials[c[2] + 1].quantity = IntVal(ExactQuantity[c])

\* p + q + r = 1 exactly, for finite positive numbers below 1
AddToOne(p, q, r) ==
    LET ee == Min2(Min2(p.e, q.e), r.e)
    IN  BAdd(BAdd(BShl(p.m, p.e - ee), BShl(q.m, q.e - ee)), BShl(r.m, r.e - ee))
          = BShl(BOne, -ee)

\* the proportion getQuantity(index) uses: comp / sum
proportion(mix, index) == NumDiv(getAggregate(mix, index), getSum(mix))

ProportionsAddToOne ==
    [in \in { v \in ValidInputs : v.hb } |->
       AddToOne(proportion(MixOf(in), 0), proportion(MixOf(in), 1),
                proportion(MixOf(in), 2))]

\* C9: for a valid 3-part ratio with ballast the three proportions a/sum,
\* b/sum, c/sum that getQuantity uses add up to exactly 1.
C9_ProportionsSumToOne ==
    \A in \in DOMAIN ProportionsAddToOne :
        (concrete = MixOf(in) /\ results # << >>) => ProportionsAddToOne[in]

\* C10: for a valid 2-part ratio without ballast getCost() returns exactly two
\* entries, the cement and sand descriptions with the quantities
\* ceil(part/(a+b) * dryVolume * factor); nothing is computed or returned for
\* ballast.
C10_TwoQuantities ==
    \A in \in { v \in ValidInputs : ~v.hb } :
        (concrete = MixOf(in) /\ results # << >>)
        => /\ Len(results) = 2
           /\ results[1] = describe(materials[1])
           /\ results[2] = describe(materials[2])
           /\ materials[1].quantity = QuantityTable[<<MixOf(in), 0, materials[1].factor>>]
           /\ materials[2].quantity = QuantityTable[<<MixOf(in), 1, materials[2].factor>>]
           /\ materials[3].quantity.k = "int"

(***************************************************************************)
(* Properties of the calculator on inputs the specification calls invalid. *)
(***************************************************************************)
\* a part of the ratio of calculator mix is no number
NonNumericRatio(mix) ==
    \E i \in 1..Len(getRatio(mix)) : parseFloat(getRatio(mix)[i]).k = "NaN"

\* C11: a calculator whose ratio has a non-numeric part (as "1:x:4") fails:
\* getCost() returns no list, so no NaN quantity is assigned to a material or
\* rendered into a description.
C11_NonNumericRatioFails ==
    (concrete # NoMix /\ NonNumericRatio(concrete)) => results = << >>

\* the ratio has another number of parts than hasBallast declares
PartCountMismatch(mix) == Len(getRatio(mix)) # (IF mix.hasBallast THEN 3 ELSE 2)

\* C12: a calculator whose ratio part count does not match hasBallast fails
\* (getCost() returns no list), and no getCost() on a ratio of fewer than three
\* parts computes a ballast quantity from the missing third part.
C12_MismatchFails ==
    /\ (concrete # NoMix /\ PartCountMismatch(concrete)) => results = << >>
    /\ (concrete # NoMix /\ Len(getRatio(concrete)) < 3)
         => ~(Len(results) = 3 /\ materials[3].quantity.k = "NaN")

\* the volume is 0, negative or no number
NonPositiveVolume(mix) ==
    mix.volume.k = "NaN" \/ IsZero(mix.volume) \/ mix.volume.s = -1

\* C13: no step of a calculator whose volume is zero, negative or not a number
\* changes a material or returns a description list.
C13_BadVolumeFails ==
    [][(concrete # NoMix /\ concrete' = concrete /\ NonPositiveVolume(concrete))
         => (materials' = materials /\ results' = << >>)]_vars

(***************************************************************************)
(* Properties of the materials and of the list getCost() returns.          *)
(***************************************************************************)
\* the summary line of a material of quantity q > 0
SummaryLine(mat, q) ==
    StringVal(mat.name \o "..." \o ToString(q) \o "..." \o mat.unit \o "..."
              \o ToString(mat.price) \o "..." \o ToString(q * mat.price))

\* C14: describe() gives undefined exactly when the quantity is 0, and for a
\* quantity above 0 the string of name, quantity, unit, price and
\* quantity * price in that order (results[i] is describe() of material i,
\* called right after its quantity was set).
C14_DescribeZeroOrSummary ==
    \A i \in 1..Len(results) :
        /\ results[i] = Undefined <=> materials[i].quantity = IntVal(0)
        /\ (materials[i].quantity.k = "int" /\ materials[i].quantity.v > 0)
             => results[i] = SummaryLine(materials[i], materials[i].quantity.v)

\* C14 witness: one getCost() described a material of quantity 0 and one of
\* a quantity above 0.
C14_Witness ==
    \E i, j \in 1..Len(results) :
        /\ materials[i].quantity = IntVal(0) /\ results[i] = Undefined
        /\ materials[j].quantity.k = "int" /\ materials[j].quantity.v > 0
        /\ results[j] = SummaryLine(materials[j], materials[j].quantity.v)

\* C15: in every state the cost of each shared material is its current
\* quantity times its current price (NaN for a NaN quantity), and the
\* descriptions, which read the cost, left every field but the assigned
\* quantity as constructed.
C15_CostIsQuantityTimesPrice ==
    \A i \in 1..3 :
        /\ materials[i].quantity.k = "int"
             => cost(materials[i]) = IntVal(materials[i].quantity.v * materials[i].price)
        /\ materials[i].quantity.k = "NaN" => cost(materials[i]) = NaNVal
        /\ [materials[i] EXCEPT !.quantity = materialList[i].quantity] = materialList[i]

\* C15 witness: getQuantity has set the cement quantity to 64 in place, and
\* the cost is 64 * 700.
C15_Witness ==
    /\ materials[1].quantity = IntVal(64)
    /\ materialList[1].quantity = IntVal(50)
    /\ cost(materials[1]) = IntVal(44800)
    /\ results # << >>

\* C16: getCost() called again on a calculator that has returned (the same
\* volume, factor, ratio and hasBallast) returns the same list and leaves the
\* same quantities.
C16_SameInputsSameResults ==
    results # << >>
    => /\ getCost(materials, concrete).ret = results
       /\ getCost(materials, concrete).mats = materials

\* C16 witness: a getCost() has returned, the quantities are no longer the
\* placeholders, and a second call on them returns the same list.
C16_Witness ==
    /\ results # << >>
    /\ \A i \in 1..3 : materials[i].quantity # materialList[i].quantity
    /\ getCost(materials, concrete).ret = results

\* C17 (as stated): getCost() returns exactly three descriptions, in the
\* order cement, sand, ballast, entry i describing the material at catalog
\* position i with the quantity computed from ratio part i.
C17_ThreeDescriptions ==
    results # << >>
    => /\ Len(results) = 3
       /\ \A i \in 1..3 :
             /\ results[i].t = "string"
             /\ results[i] = describeAlways(
                   [materialList[i] EXCEPT !.quantity =
                      QuantityTable[<<concrete, i - 1, materialList[i].factor>>]])

\* C17 (amended): getCost() returns exactly three entries, in the order
\* cement, sand, ballast; entry i is describe() of the material at catalog
\* position i with the quantity computed from ratio part i: its description,
\* or undefined when that quantity is 0.
C17_ThreeEntries ==
    results # << >>
    => /\ Len(results) = 3
       /\ \A i \in 1..3 :
             /\ materials[i].name = <<"cement", "sand", "ballast">>[i]
             /\ materials[i].quantity
                  = QuantityTable[<<concrete, i - 1, materialList[i].factor>>]
             /\ results[i] = describe(materials[i])

\* C17 witness: getCost() on ratio "0:1:2" returned three entries, undefined
\* for cement (quantity 0) and the sand and ballast descriptions.
C17_Witness ==
    /\ concrete = Mixes(Lit(TenLit), Lit(ConcreteFactorLit),
                        <<"0", ":", "1", ":", "2">>, TRUE)
    /\ results = <<Undefined, StringVal("sand...10...tons...1350...13500"),
                   StringVal("ballast...23...tons...2500...57500")>>

(***************************************************************************)
(* Properties of Block.                                                    *)
(***************************************************************************)
\* size is three segments of digits separated by "x"
WellFormed(size) ==
    /\ Len(Split(size, "x")) = 3
    /\ \A i \in 1..3 :
          /\ Split(size, "x")[i] # << >>
          /\ \A h \in 1..Len(Split(size, "x")[i]) : IsDigit(Split(size, "x")[i][h])

\* segment i of a well formed size, in millimetres
Millimetres(size, i) == DigitsToInt(Split(size, "x")[i], 0)

\* the sign of x - num / den, for a finite x > 0 below 2^52
RatioCmp(x, num, den) == BCmp(BMul(x.m, BFromInt(den)), BShl(BFromInt(num), -x.e))

\* |a - b| of naturals
Distance(a, b) == IF BCmp(a, b) >= 0 THEN BSub(a, b) ELSE BSub(b, a)

\* x is num / den up to a relative error of 2^-bits
Near(x, num, den, bits) ==
    /\ x.k = "finite" /\ x.s = 1 /\ x.e < 0
    /\ BCmp(BShl(Distance(BMul(x.m, BFromInt(den)), BShl(BFromInt(num), -x.e)), bits),
            BShl(BFromInt(num), -x.e)) <= 0

SameFace(size, other) ==
    /\ Millimetres(size, 1) = Millimetres(other, 1)
    /\ Millimetres(size, 3) = Millimetres(other, 3)

\* C18: for a size "LxTxH" getBlockDimensions() returns L/1000, T/1000 and
\* H/1000 and getBlocksPerSquareMeter() returns
\* 1 / ((L/1000 + 0.02) * (H/1000 + 0.02)) (each up to the rounding of the
\* floating point operations), the same for every thickness, quantity and
\* price; for "360x180x180" the dimensions are the numbers 0.36, 0.18, 0.18
\* and the result is the number 1 / 0.076, 13.16 to two decimals.
C18_BlockGeometry ==
    (block # NoBlock /\ WellFormed(block.size))
    => /\ measured.op = "getBlockDimensions"
            => \A i \in 1..3 :
                  Near(measured.value[i], Millimetres(block.size, i), 1000, 52)
       /\ measured.op = "getBlocksPerSquareMeter"
            => /\ Near(measured.value, 1000000,
                       (Millimetres(block.size, 1) + 20)
                         * (Millimetres(block.size, 3) + 20), 50)
               /\ \A other \in Blocks :
                     (WellFormed(other.size) /\ SameFace(block.size, other.size))
                     => BlockTable[other].perSquareMeter = measured.value
       /\ block.size = HomeBlock.size
            => /\ measured.op = "getBlockDimensions"
                    => measured.value = <<Dec(1, 36, 2), Dec(1, 18, 2), Dec(1, 18, 2)>>
               /\ measured.op = "getBlocksPerSquareMeter"
                    => /\ measured.value = NumDiv(FromInt(1), Dec(1, 76, 3))
                       /\ RatioCmp(measured.value, 13155, 1000) >= 0
                       /\ RatioCmp(measured.value, 13165, 1000) < 0

\* C18 witness: getBlocksPerSquareMeter() of a block of size "360x180x180"
\* and quantity 3000 has returned a number between 13.155 and 13.165.
C18_Witness ==
    /\ mode = "blocks"
    /\ block.size = HomeBlock.size /\ block.quantity = IntVal(3000)
    /\ measured.op = "getBlocksPerSquareMeter"
    /\ RatioCmp(measured.value, 13155, 1000) >= 0
    /\ RatioCmp(measured.value, 13165, 1000) < 0

\* C19: no method of a block whose size is malformed returns a value (each
\* fails): none returns NaN or a number computed from part of a segment.
C19_MalformedSizeFails ==
    (block # NoBlock /\ ~WellFormed(block.size)) => measured = NoMeasure

(***************************************************************************)
(* Properties of the concrete route.                                       *)
(***************************************************************************)
\* C20: every error the mix computation raises for a request is caught by the
\* route handler, which renders its own message: no request is left to the
\* default error handler of Express and its 500 page.
C20_HandlerRendersMessage == response.status # 500

-----------------------------------------------------------------------------
\* Shared materials across getCost() calls

\* the fields of a material a mix computation is not to change
Frame(material) ==
    [name |-> material.name, unit |-> material.unit, price |-> material.price,
     factor |-> material.factor]

\* C21: a step changes nothing of the three shared materials but quantity:
\* name, unit, price and factor stay those of the catalog; a getCost() step
\* leaves in each material the quantity it computed from its own calculator,
\* and every other step leaves the quantities as the last call set them.
C21_OnlyQuantityMutated ==
    [][\A i \in 1..3 :
          /\ Frame(materials'[i]) = Frame(materials[i])
          /\ Frame(materials[i]) = Frame(materialList[i])
          /\ DOMAIN materials'[i] = DOMAIN materialList[i]
          /\ materials'[i].quantity
                = IF results' # << >>
                  THEN QuantityTable[<<concrete, i - 1, materialList[i].factor>>]
                  ELSE materials[i].quantity]_vars

\* C21 witness: a new calculator has been constructed after a getCost() of
\* an earlier one, and the shared materials still hold the quantities of that
\* earlier call: neither the placeholders nor those of the new calculator.
C21_Witness ==
    /\ concrete # NoMix
    /\ results = << >>
    /\ \A i \in 1..3 :
          /\ materials[i].quantity # materialList[i].quantity
          /\ materials[i].quantity.k = "int"
          /\ materials[i].quantity
                # QuantityTable[<<concrete, i - 1, materialList[i].factor>>]
          /\ Frame(materials[i]) = Frame(materialList[i])

\* the calculator new Concrete(125, 1.33, "1:4:1", true)
LaterMix ==
    Mixes(Lit([n |-> 125, d |-> 0]), Lit([n |-> 133, d |-> 2]),
          <<"1", ":", "4", ":", "1">>, TRUE)

\* C24: whatever calls came before, the list a getCost() call returned is the
\* list the same calculator returns on the materials as the process starts
\* with them: it depends on the calculator's volume, factor and ratio and on
\* the catalog only, not on the quantities earlier calls left.
C24_ResultIndependentOfHistory ==
    results # << >> => results = getCost(materialList, concrete).ret

\* C24 witness: getCost() of the calculator (125, 1.33, "1:4:1", true) has
\* returned three descriptions, the ones a first call in a new process returns.
C24_Witness ==
    /\ concrete = LaterMix
    /\ Len(results) = 3
    /\ \A i \in 1..3 : results[i].t = "string"
    /\ results = getCost(materialList, LaterMix).ret

-----------------------------------------------------------------------------
\* Usage counts of every identity

\* the passes of identity id that the limiter accepted
Accepted(id) == { i \in 1..Len(outcomes[id]) : Pass(id, i).next }

\* C22: for every identity, also one that is the name of an inherited object
\* property, the count stored under it is an integer in 0..FREE_LIMIT and at
\* most FREE_LIMIT of its passes were accepted.
C22_CountsWithinLimit ==
    \A id \in Identities :
        /\ id \in DOMAIN usageTracker
           => /\ usageTracker[id].k = "int"
              /\ usageTracker[id].v \in 0..FREE_LIMIT
        /\ Cardinality(Accepted(id)) <= FREE_LIMIT

-----------------------------------------------------------------------------
\* Session server: sessions that are not logged in

\* the last pass of identity id
LastPass(id) == outcomes[id][Len(outcomes[id])]

\* C23: in the session server a request of a session without e-mail passes
\* the limiter as "guest", and a pass is counted under an e-mail only for a
\* session that holds it; once FREE_LIMIT passes of "guest" were accepted,
\* every further request of a session without e-mail to GET /login, POST /login
\* or GET / is answered 403 and no session without e-mail gets one.
C23_GuestLimitLocksLogin ==
    [][mode = "session"
       => /\ \A id \in Identities \ {Guest} :
                outcomes'[id] # outcomes[id] => \E sn \in Sessions : session[sn] = id
          /\ Cardinality(Accepted(Guest)) >= FREE_LIMIT
             => /\ \A sn \in Sessions : session[sn] = Absent => session'[sn] = Absent
                /\ outcomes'[Guest] # outcomes[Guest]
                   => /\ Len(outcomes'[Guest]) = Len(outcomes[Guest]) + 1
                      /\ ~outcomes'[Guest][Len(outcomes'[Guest])].next
                      /\ response'.status = 403
                      /\ response'.who = Guest
                      /\ usageTracker' = usageTracker]_vars

\* C23 witness: one session logged in while "guest" was below the limit;
\* after FREE_LIMIT accepted passes of "guest" a session without e-mail asked
\* again, was answered 403 and still has no e-mail.
C23_Witness ==
    /\ mode = "session"
    /\ \E sn \in Sessions : session[sn] # Absent
    /\ \E sn \in Sessions : session[sn] = Absent
    /\ Len(outcomes[Guest]) = FREE_LIMIT + 1
    /\ Cardinality(Accepted(Guest)) = FREE_LIMIT
    /\ ~LastPass(Guest).next
    /\ response = LimitReached(Guest)

-----------------------------------------------------------------------------
\* routes/server.js: who holds a session e-mail

\* the step is a POST /login of client sn that was answered with an error page
FailedLogin(sn) ==
    /\ response'.status = 400
    /\ \/ \E email \in LoginBodies : RoutesLoginStart(sn, email)
       \/ \E email \in pending[sn], found \in MxOutcomes :
             RoutesLoginFinish(sn, email, found)

\* the step is a POST /login of client sn that finished with an e-mail that
\* is present, passed enhancedEmailValidation and is of no suspicious domain,
\* and left that e-mail in the session
ValidatedLogin(sn) ==
    \E email \in pending[sn], found \in MxOutcomes :
        /\ RoutesLoginFinish(sn, email, found)
        /\ Present(email)
        /\ email.t = "string"
        /\ enhancedEmailValidation(email, found).kind = "valid"
        /\ ~isSuspicious(email.chars)
        /\ session'[sn] = email.chars
        /\ response' = Redirect(<<"/">>, email.chars)

\* C25: in every step of routes/server.js, for every client: its session
\* gets or changes an e-mail only in a POST /login whose e-mail is present,
\* passed enhancedEmailValidation and is of no suspicious domain; a POST
\* /login answered with an error page leaves every session as it was; GET /
\* sends the home page to a session with an e-mail and redirects one without
\* to /login; GET /logout leaves the session without e-mail and redirects to
\* /login (so GET / keeps redirecting until a POST /login of the client
\* succeeds).
C25_EmailOnlyByValidatedLogin ==
    [][mode = "routes"
       => \A sn \in Sessions :
             /\ (session'[sn] # session[sn] /\ session'[sn] # Absent) => ValidatedLogin(sn)
             /\ FailedLogin(sn) => session' = session
             /\ RoutesGetHome(sn)
                => response' = IF session[sn] = Absent
                               THEN Redirect(LoginPath, Absent)
                               ELSE Page("home", session[sn])
             /\ RoutesLogout(sn)
                => /\ session'[sn] = Absent
                   /\ response' = Redirect(LoginPath, Absent)
                   /\ \A other \in Sessions \ {sn} : session'[other] = session[other]]_vars

\* C25 witness: one client is logged in with "u@mail.org"; the other, whose
\* POST /login with an address of a domain containing "test" waits for the
\* lookup, has no e-mail and was redirected to /login.
C25_Witness ==
    /\ mode = "routes"
    /\ response = Redirect(LoginPath, Absent)
    /\ \E sn \in Sessions, other \in Sessions :
          /\ sn # other
          /\ session[sn] = Absent
          /\ session[other] = Chars("u@mail.org")
          /\ pending[sn] = {StringBody("u@contest.org")}
====
